---- MODULE Spec2Model ----
(***************************************************************************)
(* Model of refactor_solid.py: the Order dataclass, the payment and        *)
(* notification plug-ins, CheckoutService.run_checkout executed line by    *)
(* line, and the module-level script (two scenarios).  Importing or        *)
(* running the module executes the script; afterwards client code may      *)
(* build further orders, processors and coordinators and call              *)
(* run_checkout on any of them.                                            *)
(***************************************************************************)
EXTENDS Integers, Sequences, FiniteSets

VARIABLES orders, processors, notifiers, services, globals,
          main_pc, pc, frame, log, stdout, trace

vars == <<orders, processors, notifiers, services, globals,
          main_pc, pc, frame, log, stdout, trace>>

(* ---------------- bounds of the client phase ---------------- *)
\* each bound counts the objects and calls of the script (two of each) as well
MaxCalls == 4
MaxOrders == 3
MaxServices == 3

\* what client code passes to Order(...) and which processor it plugs in:
\* "OtherProcessor" is any further implementation of IPaymentProcessor, whose
\* process() may return either boolean; the two shipped classes are
\* instantiated by the script
Customers == {<<"Budi", 100000>>, <<"Citra", 0>>}
ProcessorClasses == {"OtherProcessor"}

(* ---------------- data ---------------- *)
Order_BornPaid(customer_name, total_price) ==
    [customer_name |-> customer_name, total_price |-> total_price, status |-> "paid"]

\* @dataclass Order: status defaults to "open"
Order(customer_name, total_price) ==
    [customer_name |-> customer_name, total_price |-> total_price, status |-> "open"]

\* CheckoutService.__init__: stores the two injected references
CheckoutService(payment_processor, notifier) ==
    [payment_processor |-> payment_processor, notifier |-> notifier]

\* one record of the logging module: logger name, level, message (template + arguments)
LogRecord(name, level, text, who, total) ==
    [name |-> name, level |-> level, text |-> text, who |-> who, total |-> total]

NoFrame == [self |-> 0, order |-> 0, payment_success |-> FALSE]

\* boundary-crossing event: receiver object, order argument, boolean carried,
\* the order's fields and the length of the log at that moment
Event(op, obj, o, val) ==
    [op |-> op, obj |-> obj, order |-> o, val |-> val,
     snap |-> orders[o], at |-> Len(log)]

NoGlobals ==
    [andi_order |-> 0, email_service |-> 0, cc_processor |-> 0, checkout_cc |-> 0,
     budi_order |-> 0, qris_processor |-> 0, checkout_qris |-> 0]

Init ==
    /\ orders = <<>>
    /\ processors = <<>>
    /\ notifiers = <<>>
    /\ services = <<>>
    /\ globals = NoGlobals
    /\ main_pc = "L159"
    /\ pc = "idle"
    /\ frame = NoFrame
    /\ log = <<>>
    /\ stdout = <<>>
    /\ trace = <<>>

(* ---------------- plug-ins ---------------- *)
\* LOGGER3 record written by process(); OtherProcessor stands for any further
\* implementation of IPaymentProcessor and writes nothing
ProcessLog(cls) ==
    CASE cls = "CreditCardProcessor" ->
           <<LogRecord("Metode Pembayaran", "INFO", "Payment: Memproses Kartu Kredit.", "", 0)>>
      [] cls = "QrisProcessor" ->
           <<LogRecord("Metode Pembayaran", "INFO", "Payment: Memproses QRIS.", "", 0)>>
      [] OTHER -> <<>>

ProcessResult_QrisDeclines(cls, outcome) ==
    CASE cls = "CreditCardProcessor" -> TRUE
      [] cls = "QrisProcessor" -> FALSE
      [] OTHER -> outcome

\* value returned by process(); outcome is what a further implementation decides
ProcessResult(cls, outcome) ==
    CASE cls = "CreditCardProcessor" -> TRUE
      [] cls = "QrisProcessor" -> TRUE
      [] OTHER -> outcome

\* EmailNotifier.send: one LOGGER2 record naming the customer
SendLog(order) ==
    LogRecord("Notifikasi", "INFO", "Notif: Mengirim email konfirmasi ke", order.customer_name, 0)

(* ---------------- CheckoutService.run_checkout, line by line ---------------- *)
CalleeUnchanged == UNCHANGED <<processors, notifiers, services, globals, main_pc, stdout>>

\* entering run_checkout(self, order)
Call(self, o) ==
    /\ pc' = "L144"
    /\ frame' = [self |-> self, order |-> o, payment_success |-> FALSE]
    /\ trace' = Append(trace, Event("call", self, o, FALSE))

L144 ==
    /\ pc = "L144"
    /\ log' = Append(log, LogRecord("Checkout", "INFO", "Memulai checkout untuk",
                                    orders[frame.order].customer_name,
                                    orders[frame.order].total_price))
    /\ pc' = "L145"
    /\ UNCHANGED <<orders, frame, trace>>
    /\ CalleeUnchanged

L145 ==
    /\ pc = "L145"
    /\ LET p == services[frame.self].payment_processor
           cls == processors[p]
       IN \E outcome \in BOOLEAN :
            /\ (cls # "OtherProcessor") => outcome
            /\ log' = log \o ProcessLog(cls)
            /\ frame' = [frame EXCEPT !.payment_success = ProcessResult(cls, outcome)]
            /\ trace' = Append(trace, Event("process", p, frame.order,
                                            ProcessResult(cls, outcome)))
    /\ pc' = "L147"
    /\ UNCHANGED orders
    /\ CalleeUnchanged

Branch_Inverted(payment_success) == IF payment_success THEN "L154" ELSE "L148"

Branch_SkipsMark(payment_success) == IF payment_success THEN "L149" ELSE "L154"

\* if payment_success: ... else: ...
Branch(payment_success) == IF payment_success THEN "L148" ELSE "L154"

L147 ==
    /\ pc = "L147"
    /\ pc' = Branch(frame.payment_success)
    /\ UNCHANGED <<orders, frame, log, trace>>
    /\ CalleeUnchanged

L148_MarksAll ==
    /\ pc = "L148"
    /\ orders' = [o \in 1..Len(orders) |-> [orders[o] EXCEPT !.status = "paid"]]
    /\ pc' = "L149"
    /\ UNCHANGED <<frame, log, trace>>
    /\ CalleeUnchanged

\* order.status = "paid"
L148 ==
    /\ pc = "L148"
    /\ orders' = [orders EXCEPT ![frame.order].status = "paid"]
    /\ pc' = "L149"
    /\ UNCHANGED <<frame, log, trace>>
    /\ CalleeUnchanged

L149 ==
    /\ pc = "L149"
    /\ log' = Append(log, SendLog(orders[frame.order]))
    /\ trace' = Append(trace, Event("send", services[frame.self].notifier, frame.order, TRUE))
    /\ pc' = "L150"
    /\ UNCHANGED <<orders, frame>>
    /\ CalleeUnchanged

L150 ==
    /\ pc = "L150"
    /\ log' = Append(log, LogRecord("Checkout", "INFO",
                                    "Checkout Sukses. Status pesanan: PAID", "", 0))
    /\ pc' = "L151"
    /\ UNCHANGED <<orders, frame, trace>>
    /\ CalleeUnchanged

\* return v: back to the caller
Return(v) ==
    /\ trace' = Append(trace, Event("return", frame.self, frame.order, v))
    /\ pc' = "idle"
    /\ frame' = NoFrame
    /\ UNCHANGED <<orders, log>>
    /\ CalleeUnchanged

L151 ==
    /\ pc = "L151"
    /\ Return(TRUE)

L154_Reopens ==
    /\ pc = "L154"
    /\ log' = Append(log, LogRecord("Checkout", "ERROR",
                                    "Pembayaran gagal. Transaksi dibatalkan.", "", 0))
    /\ orders' = [orders EXCEPT ![frame.order].status = "open"]
    /\ pc' = "L155"
    /\ UNCHANGED <<frame, trace>>
    /\ CalleeUnchanged

L154_MarksFailed ==
    /\ pc = "L154"
    /\ log' = Append(log, LogRecord("Checkout", "ERROR",
                                    "Pembayaran gagal. Transaksi dibatalkan.", "", 0))
    /\ orders' = [orders EXCEPT ![frame.order].status = "failed"]
    /\ pc' = "L155"
    /\ UNCHANGED <<frame, trace>>
    /\ CalleeUnchanged

L154_Notifies ==
    /\ pc = "L154"
    /\ log' = log \o <<SendLog(orders[frame.order]),
                       LogRecord("Checkout", "ERROR",
                                 "Pembayaran gagal. Transaksi dibatalkan.", "", 0)>>
    /\ trace' = Append(trace, Event("send", services[frame.self].notifier, frame.order, TRUE))
    /\ pc' = "L155"
    /\ UNCHANGED <<orders, frame>>
    /\ CalleeUnchanged

L154_Silent ==
    /\ pc = "L154"
    /\ pc' = "L155"
    /\ UNCHANGED <<orders, frame, log, trace>>
    /\ CalleeUnchanged

\* LOGGER.error(...) in the else branch
L154 ==
    /\ pc = "L154"
    /\ log' = Append(log, LogRecord("Checkout", "ERROR",
                                    "Pembayaran gagal. Transaksi dibatalkan.", "", 0))
    /\ pc' = "L155"
    /\ UNCHANGED <<orders, frame, trace>>
    /\ CalleeUnchanged

L155 ==
    /\ pc = "L155"
    /\ Return(FALSE)

RunCheckoutStep == L144 \/ L145 \/ L147 \/ L148 \/ L149 \/ L150 \/ L151 \/ L154 \/ L155

(* ---------------- module-level script, lines 159-196 ---------------- *)
MainStep(at, next) ==
    /\ pc = "idle"
    /\ main_pc = at
    /\ main_pc' = next

Main159 ==
    /\ MainStep("L159", "L160")
    /\ orders' = Append(orders, Order("Andi", 500000))
    /\ globals' = [globals EXCEPT !.andi_order = Len(orders) + 1]
    /\ UNCHANGED <<processors, notifiers, services, pc, frame, log, stdout, trace>>

Main160 ==
    /\ MainStep("L160", "L163")
    /\ notifiers' = Append(notifiers, "EmailNotifier")
    /\ globals' = [globals EXCEPT !.email_service = Len(notifiers) + 1]
    /\ UNCHANGED <<orders, processors, services, pc, frame, log, stdout, trace>>

Main163 ==
    /\ MainStep("L163", "L164")
    /\ processors' = Append(processors, "CreditCardProcessor")
    /\ globals' = [globals EXCEPT !.cc_processor = Len(processors) + 1]
    /\ UNCHANGED <<orders, notifiers, services, pc, frame, log, stdout, trace>>

Main164 ==
    /\ MainStep("L164", "L165")
    /\ services' = Append(services, CheckoutService(globals.cc_processor, globals.email_service))
    /\ globals' = [globals EXCEPT !.checkout_cc = Len(services) + 1]
    /\ UNCHANGED <<orders, processors, notifiers, pc, frame, log, stdout, trace>>

Main165 ==
    /\ MainStep("L165", "L166")
    /\ stdout' = Append(stdout, "--- Skenario 1: Credit Card ---")
    /\ UNCHANGED <<orders, processors, notifiers, services, globals, pc, frame, log, trace>>

Main166 ==
    /\ MainStep("L166", "L190")
    /\ Call(globals.checkout_cc, globals.andi_order)
    /\ UNCHANGED <<orders, processors, notifiers, services, globals, log, stdout>>

Main190 ==
    /\ MainStep("L190", "L191")
    /\ orders' = Append(orders, Order("Budi", 100000))
    /\ globals' = [globals EXCEPT !.budi_order = Len(orders) + 1]
    /\ UNCHANGED <<processors, notifiers, services, pc, frame, log, stdout, trace>>

Main191 ==
    /\ MainStep("L191", "L194")
    /\ processors' = Append(processors, "QrisProcessor")
    /\ globals' = [globals EXCEPT !.qris_processor = Len(processors) + 1]
    /\ UNCHANGED <<orders, notifiers, services, pc, frame, log, stdout, trace>>

Main194 ==
    /\ MainStep("L194", "L195")
    /\ services' = Append(services, CheckoutService(globals.qris_processor, globals.email_service))
    /\ globals' = [globals EXCEPT !.checkout_qris = Len(services) + 1]
    /\ UNCHANGED <<orders, processors, notifiers, pc, frame, log, stdout, trace>>

Main195 ==
    /\ MainStep("L195", "L196")
    /\ stdout' = Append(stdout, "--- Skenario 2: Pembuktian OCP (QRIS) ---")
    /\ UNCHANGED <<orders, processors, notifiers, services, globals, pc, frame, log, trace>>

Main196_WrongOrder ==
    /\ MainStep("L196", "done")
    /\ Call(globals.checkout_qris, globals.andi_order)
    /\ UNCHANGED <<orders, processors, notifiers, services, globals, log, stdout>>

Main196 ==
    /\ MainStep("L196", "done")
    /\ Call(globals.checkout_qris, globals.budi_order)
    /\ UNCHANGED <<orders, processors, notifiers, services, globals, log, stdout>>

(* ---------------- client code using the module after the script ---------------- *)
ClientIdle == main_pc = "done" /\ pc = "idle"

CallCount == Cardinality({i \in 1..Len(trace) : trace[i].op = "call"})

NewOrder ==
    /\ ClientIdle
    /\ Len(orders) < MaxOrders
    /\ \E c \in Customers : orders' = Append(orders, Order(c[1], c[2]))
    /\ UNCHANGED <<processors, notifiers, services, globals, main_pc, pc, frame, log, stdout, trace>>

\* CheckoutService(payment_processor = <new processor>, notifier = <existing notifier>)
NewService ==
    /\ ClientIdle
    /\ Len(services) < MaxServices
    /\ \E cls \in ProcessorClasses, n \in 1..Len(notifiers) :
         /\ processors' = Append(processors, cls)
         /\ services' = Append(services, CheckoutService(Len(processors) + 1, n))
    /\ UNCHANGED <<orders, notifiers, globals, main_pc, pc, frame, log, stdout, trace>>

ClientCheckout ==
    /\ ClientIdle
    /\ CallCount < MaxCalls
    /\ \E s \in 1..Len(services), o \in 1..Len(orders) : Call(s, o)
    /\ UNCHANGED <<orders, processors, notifiers, services, globals, main_pc, log, stdout>>

Next ==
    \/ Main159 \/ Main160 \/ Main163 \/ Main164 \/ Main165 \/ Main166
    \/ Main190 \/ Main191 \/ Main194 \/ Main195 \/ Main196
    \/ L144 \/ L145 \/ L147 \/ L148 \/ L149 \/ L150 \/ L151 \/ L154 \/ L155
    \/ NewOrder \/ NewService \/ ClientCheckout

Spec == Init /\ [][Next]_vars

\* run_checkout is synchronous straight-line code: once entered it runs to its return
FairSpec == Spec /\ WF_vars(RunCheckoutStep)

(* ---------------- reading the trace ---------------- *)
Calls == {i \in 1..Len(trace) : trace[i].op = "call"}

\* last event of the call that starts at event i (calls do not nest)
SegEnd(i) ==
    LET later == {j \in Calls : j > i}
    IN IF later = {} THEN Len(trace)
       ELSE (CHOOSE j \in later : \A k \in later : j <= k) - 1

EventsOf(i, op) == {j \in i..SegEnd(i) : trace[j].op = op}

Completed == {i \in Calls : trace[SegEnd(i)].op = "return"}

\* the boolean that process() handed back to call i, and the one call i returned
Paid(i) == \E j \in EventsOf(i, "process") : trace[j].val
Returned(i) == trace[SegEnd(i)].val

\* the log records written during the completed call i
LogOf(i) == SubSeq(log, trace[i].at + 1, trace[SegEnd(i)].at)

ClassOf(i) == processors[services[trace[i].obj].payment_processor]

Count(seq, name, level) ==
    Cardinality({k \in 1..Len(seq) : seq[k].name = name /\ seq[k].level = level})

(* ---------------- C1 ---------------- *)
\* C1: every completed run_checkout made exactly one process call and returned
\* true exactly when that process call returned true.
C1_ReturnIffProcess ==
    \A i \in Completed :
        /\ Cardinality(EventsOf(i, "process")) = 1
        /\ Returned(i) <=> Paid(i)

C1_Witness ==
    /\ \E i \in Completed : Returned(i) /\ ClassOf(i) = "OtherProcessor"
    /\ \E i \in Completed : ~Returned(i)

(* ---------------- C2 ---------------- *)
\* C2: after a run_checkout that returned true the order's status is "paid"; after
\* one that returned false the status is what it was when the call began, which
\* for an order never checked out before is "open".
C2_StatusAfterCall ==
    \A i \in Completed :
        LET o == trace[i].order
            r == SegEnd(i)
        IN /\ Returned(i) => trace[r].snap.status = "paid"
           /\ ~Returned(i) => trace[r].snap.status = trace[i].snap.status
           /\ (~Returned(i) /\ \A j \in Calls : j < i => trace[j].order # o)
                 => trace[r].snap.status = "open"
           /\ (r = Len(trace) /\ pc = "idle") => orders[o] = trace[r].snap

C2_Witness ==
    /\ \E i \in Completed : ~Returned(i) /\ trace[i].snap.status = "paid"
    /\ \E i \in Completed : ~Returned(i) /\ trace[i].snap.status = "open"
    /\ \E i \in Completed : Returned(i) /\ trace[i].snap.status = "open"

(* ---------------- C3 ---------------- *)
\* C3: a completed run_checkout invoked send once, on the coordinator's own
\* notifier and the call's order, if process succeeded and not at all if it
\* failed; between calls the number of sends so far, and of notification
\* records, equals the number of calls whose payment succeeded.
C3_SendOncePerSuccess ==
    /\ \A i \in Completed :
          /\ Cardinality(EventsOf(i, "send")) = (IF Paid(i) THEN 1 ELSE 0)
          /\ \A j \in EventsOf(i, "send") :
                /\ trace[j].obj = services[trace[i].obj].notifier
                /\ trace[j].order = trace[i].order
    /\ pc = "idle" =>
          /\ Cardinality({j \in 1..Len(trace) : trace[j].op = "send"})
                = Cardinality({i \in Calls : Paid(i)})
          /\ Count(log, "Notifikasi", "INFO") = Cardinality({i \in Calls : Paid(i)})

C3_Witness ==
    /\ pc = "idle"
    /\ Cardinality({i \in Completed : Paid(i)}) = 3
    /\ Cardinality({i \in Completed : ~Paid(i)}) = 1

(* ---------------- C4 ---------------- *)
\* C4: an order's status is "paid" exactly when some process call for that order
\* returned success and run_checkout has executed the assignment that follows it.
PendingMark(j) == j = Len(trace) /\ pc \in {"L147", "L148"}

C4_PaidIffProcessed ==
    \A o \in 1..Len(orders) :
        orders[o].status = "paid"
            <=> \E j \in 1..Len(trace) :
                   /\ trace[j].op = "process"
                   /\ trace[j].order = o
                   /\ trace[j].val
                   /\ ~PendingMark(j)

C4_Witness ==
    /\ Len(orders) = 3
    /\ orders[3].status = "open"
    /\ pc = "L148"
    /\ frame.order = 3
    /\ \E i \in Completed : trace[i].order = 3 /\ ~Returned(i)

(* ---------------- C5 ---------------- *)
\* C5: an order's status is always open or paid, starts at open, never goes from
\* paid back to open, and goes from open to paid only in the assignment step of
\* a run_checkout on that order whose payment succeeded.
C5_Step ==
    /\ \A o \in 1..Len(orders) :
          /\ o \in 1..Len(orders')
          /\ orders[o].status = "paid" => orders'[o].status = "paid"
          /\ (orders[o].status = "open" /\ orders'[o].status = "paid")
                => /\ pc = "L148"
                   /\ frame.order = o
                   /\ frame.payment_success
                   /\ trace[Len(trace)].op = "process"
                   /\ trace[Len(trace)].order = o
                   /\ trace[Len(trace)].val
    /\ \A o \in 1..Len(orders') :
          /\ orders'[o].status \in {"open", "paid"}
          /\ o > Len(orders) => orders'[o].status = "open"

C6_Reported ==
    \A i \in Completed :
        /\ Returned(i) \in BOOLEAN
        /\ \A k \in 1..Len(LogOf(i)) :
              LogOf(i)[k].level = "ERROR" => LogOf(i)[k].name = "Checkout"
        /\ Count(LogOf(i), "Checkout", "ERROR") = (IF Paid(i) THEN 0 ELSE 1)
        /\ ~Paid(i) =>
              /\ ~Returned(i)
              /\ Count(LogOf(i), "Notifikasi", "INFO") = 0
              /\ LogOf(i)[Len(LogOf(i))].level = "ERROR"

C6_FailureAbsorbed == []C6_Reported /\ ((pc # "idle") ~> (pc = "idle"))

C6_Witness ==
    /\ pc = "idle"
    /\ \E i \in Completed : ~Paid(i) /\ ClassOf(i) = "OtherProcessor"
    /\ \E i \in Completed : Paid(i) /\ ClassOf(i) = "OtherProcessor"

(* ---------------- C7 ---------------- *)
\* C7: a completed checkout through a CreditCardProcessor coordinator and one
\* through a QrisProcessor coordinator with the same notifier, on orders with
\* equal fields, return the same value, leave equal orders, make the same send
\* invocations and write the same log records up to the text of the
\* payment-method record; process of either class always returns true.
Mask(rec) == IF rec.name = "Metode Pembayaran" THEN [rec EXCEPT !.text = ""] ELSE rec

MaskedLog(i) == [k \in 1..Len(LogOf(i)) |-> Mask(LogOf(i)[k])]

\* what the notifier saw during call i: receiver and order fields, in order
SendsOf(i) ==
    LET idx == EventsOf(i, "send")
    IN IF idx = {} THEN <<>>
       ELSE LET j == CHOOSE j \in idx : TRUE
            IN IF Cardinality(idx) = 1 THEN <<[obj |-> trace[j].obj, snap |-> trace[j].snap]>>
               ELSE <<[obj |-> 0, snap |-> trace[j].snap], [obj |-> 0, snap |-> trace[j].snap]>>

C7_VariantsInterchangeable ==
    /\ \A j \in 1..Len(trace) :
          (trace[j].op = "process" /\ processors[trace[j].obj] \in {"CreditCardProcessor", "QrisProcessor"})
             => trace[j].val
    /\ \A i, k \in Completed :
          ( /\ ClassOf(i) = "CreditCardProcessor"
            /\ ClassOf(k) = "QrisProcessor"
            /\ services[trace[i].obj].notifier = services[trace[k].obj].notifier
            /\ trace[i].snap = trace[k].snap )
          => /\ Returned(i) = Returned(k)
             /\ trace[SegEnd(i)].snap = trace[SegEnd(k)].snap
             /\ SendsOf(i) = SendsOf(k)
             /\ MaskedLog(i) = MaskedLog(k)
             /\ LogOf(i) # LogOf(k)

C7_Witness ==
    \E i, k \in Completed :
        /\ ClassOf(i) = "CreditCardProcessor"
        /\ ClassOf(k) = "QrisProcessor"
        /\ services[trace[i].obj].notifier = services[trace[k].obj].notifier
        /\ trace[i].snap = trace[k].snap
        /\ trace[i].order # trace[k].order
        /\ trace[i].snap.status = "open"

(* ---------------- C8 ---------------- *)
\* C8: once the script has finished, its trace is scenario 1 (checkout_cc on
\* Andi's order of 500000) run to its return and then scenario 2 (checkout_qris
\* on Budi's order of 100000), each returning true with its order paid and one
\* send naming its customer on the one EmailNotifier, two sends in all; scenario
\* 2 does not start before scenario 1 has returned.
ScriptOps == <<"call", "process", "send", "return", "call", "process", "send", "return">>

C8_Scenarios ==
    /\ (main_pc \in {"L190", "L191", "L194", "L195", "L196"} /\ pc = "idle") =>
          /\ Len(trace) = 4
          /\ trace[4].op = "return"
          /\ orders[globals.andi_order].status = "paid"
    /\ (main_pc = "done" /\ pc = "idle") =>
          /\ Len(trace) >= 8
          /\ \A j \in 1..8 : trace[j].op = ScriptOps[j]
          /\ trace[1].obj = globals.checkout_cc
          /\ trace[1].order = globals.andi_order
          /\ trace[1].snap = [customer_name |-> "Andi", total_price |-> 500000, status |-> "open"]
          /\ processors[trace[2].obj] = "CreditCardProcessor"
          /\ trace[3].obj = globals.email_service
          /\ trace[3].snap.customer_name = "Andi"
          /\ trace[4].val
          /\ trace[4].snap.status = "paid"
          /\ trace[5].obj = globals.checkout_qris
          /\ trace[5].order = globals.budi_order
          /\ trace[5].snap = [customer_name |-> "Budi", total_price |-> 100000, status |-> "open"]
          /\ processors[trace[6].obj] = "QrisProcessor"
          /\ trace[7].obj = globals.email_service
          /\ trace[7].snap.customer_name = "Budi"
          /\ trace[8].val
          /\ trace[8].snap.status = "paid"
          /\ notifiers[globals.email_service] = "EmailNotifier"
          /\ services[globals.checkout_cc].notifier = services[globals.checkout_qris].notifier
          /\ orders[globals.andi_order].status = "paid"
          /\ orders[globals.budi_order].status = "paid"
          /\ Count(SubSeq(log, 1, trace[8].at), "Notifikasi", "INFO") = 2
          /\ stdout = <<"--- Skenario 1: Credit Card ---",
                        "--- Skenario 2: Pembuktian OCP (QRIS) ---">>

C8_Witness == main_pc = "done" /\ pc = "idle" /\ Len(trace) = 8

(* ---------------- C9 ---------------- *)
\* C9: a successful run_checkout is: start record, process, status assignment,
\* send, success record, return true.  The order is unchanged when process is
\* called, it is already "paid" when send receives it, and process happens once,
\* before the send.
C9_FixedOrder ==
    /\ pc \in {"L149", "L150", "L151"} => orders[frame.order].status = "paid"
    /\ \A j \in 1..Len(trace) : trace[j].op = "send" => trace[j].snap.status = "paid"
    /\ \A i \in Completed : Returned(i) =>
          LET pl == Len(ProcessLog(ClassOf(i)))
          IN /\ SegEnd(i) = i + 3
             /\ trace[i + 1].op = "process"
             /\ trace[i + 2].op = "send"
             /\ trace[i + 1].at = trace[i].at + 1
             /\ log[trace[i].at + 1].text = "Memulai checkout untuk"
             /\ trace[i + 1].snap = trace[i].snap
             /\ trace[i + 2].at = trace[i + 1].at + pl
             /\ trace[i + 3].at = trace[i + 2].at + 2
             /\ log[trace[i + 2].at + 1] = SendLog(trace[i + 2].snap)
             /\ log[trace[i + 3].at].text = "Checkout Sukses. Status pesanan: PAID"
             /\ trace[i + 3].snap = trace[i + 2].snap

C9_Witness ==
    /\ pc = "L149"
    /\ Len(orders) = 3
    /\ frame.order = 3
    /\ \E i \in Completed : Returned(i) /\ ClassOf(i) = "OtherProcessor"

(* ---------------- C10 ---------------- *)
\* C10: a step of run_checkout leaves the coordinators, processors and notifiers
\* as they were, creates no order, and changes no field of any order except the
\* status of the order it was given; what a completed call returns and leaves
\* in the order depends only on the order's fields and the payment result, not
\* on whether the coordinator had been used before.
C10_Step ==
    pc # "idle" =>
        /\ services' = services
        /\ processors' = processors
        /\ notifiers' = notifiers
        /\ globals' = globals
        /\ Len(orders') = Len(orders)
        /\ \A o \in 1..Len(orders) :
              /\ orders'[o].customer_name = orders[o].customer_name
              /\ orders'[o].total_price = orders[o].total_price
              /\ o # frame.order => orders'[o] = orders[o]

C10_Reuse ==
    \A i, k \in Completed :
        (trace[i].snap = trace[k].snap /\ Paid(i) = Paid(k))
           => /\ Returned(i) = Returned(k)
              /\ trace[SegEnd(i)].snap = trace[SegEnd(k)].snap

C10_FrameAndReuse == [][C10_Step]_vars /\ []C10_Reuse

\* a coordinator on its first call and an already used coordinator, on different
\* orders with equal fields
C10_Witness ==
    \E i, k \in Completed :
        /\ trace[i].order # trace[k].order
        /\ trace[i].snap = trace[k].snap
        /\ Paid(i) = Paid(k)
        /\ \A j \in Calls : j < i => trace[j].obj # trace[i].obj
        /\ \E j \in Calls : j < k /\ trace[j].obj = trace[k].obj /\ trace[j].order # trace[k].order

====
